---- MODULE Spec2Model ----
(***************************************************************************)
(* Frame loop of the Reverie Vulkan renderer.                              *)
(*                                                                         *)
(* The host is one thread: the RedrawRequested handler of main.rs, which   *)
(* updates the buffers of renderable 0, calls fill_commandbuffers and then *)
(* draw_frame.  pc is the position of that thread; the blocking calls      *)
(* (wait_for_fences, device_wait_idle) are the guards of their steps.  The *)
(* GPU is a second process that completes the submitted batches in         *)
(* submission order and signals the fence of each.                         *)
(*                                                                         *)
(* Spec is main's loop.  SpecFair adds the fairness of the GPU and of the   *)
(* fence waits.  SpecApi is a host that calls the public operations of the *)
(* renderer and of its objects in any order.                               *)
(***************************************************************************)
EXTENDS Naturals, Sequences, FiniteSets

\* ------------------------------------------------------------------ bounds
MaxImages == 3
MaxRedraws == 3
MaxObjects == 1
MaxResizes == 1

\* main, line 22: main pushes one renderable before it runs the event loop
MainRenderables == 1

\* ------------------------------------------------------------- input sets
ImageCounts == 2..MaxImages
VertexCounts == {4}
IndexCounts == {0, 6}
AcquireResults == {"ok", "suboptimal", "out_of_date", "error"}
PresentResults == {"ok", "suboptimal", "out_of_date", "error"}
\* the Result of wait_for_fences, reset_fences and queue_submit
CallResults == {"ok", "error"}

VARIABLES
    pc,                     \* position of the host thread
    surface_image_count,    \* image count the surface asks for (capabilities)
    image_count,            \* swapchain.image_count
    current_image,          \* swapchain.current_image
    may_begin_drawing,      \* swapchain.may_begin_drawing: fence i signaled?
    is_framebuffer_resized, \* VulkanRenderer.is_framebuffer_resized
    command_buffers,        \* VulkanRenderer.command_buffers, recorded content
    game_objects,           \* VulkanRenderer.game_objects
    allocations,            \* live allocations of the allocator
    image_index,            \* local of draw_frame: the acquired image
    inflight,               \* batches submitted to the graphics queue, pending
    events,                 \* calls made by the current redraw handler
    teardown,               \* calls made by Drop, in order
    redraws,                \* RedrawRequested events handled
    frames_ok,              \* frames acquired, submitted and presented
    frames_since_create,    \* same, since the swapchain was last created
    resize_count,           \* times the host set is_framebuffer_resized
    rs_frames,              \* draw_frame calls returned since the flag was set
    rs_recreates,           \* recreate_swapchain runs since the flag was set
    rs_other,               \* another invalidation was reported since then
    stale                   \* the renderables list or the command buffers are
                            \* newer than the last fill_commandbuffers

vars == <<pc, surface_image_count, image_count, current_image,
          may_begin_drawing, is_framebuffer_resized, command_buffers,
          game_objects, allocations, image_index, inflight, events, teardown,
          redraws, frames_ok, frames_since_create, resize_count, rs_frames,
          rs_recreates, rs_other, stale>>

swapchain_vars == <<image_count, current_image, may_begin_drawing>>
counter_vars == <<redraws, frames_ok, frames_since_create, resize_count,
                  rs_frames, rs_recreates, rs_other>>
history_vars == <<counter_vars, stale>>
resize_vars == <<rs_frames, rs_recreates, rs_other>>

Slots(n) == 0..(n - 1)

\* a zero-indexed array of n elements is a function on 0..n-1
Filled(n, v) == [i \in Slots(n) |-> v]

\* an entry of events: the call, the slot (current_image) it was made for,
\* its result or argument, and the resize flag at that moment
Ev(op, slot, arg) ==
    [op |-> op, slot |-> slot, arg |-> arg, flag |-> is_framebuffer_resized]

Log(op, slot, arg) == Append(events, Ev(op, slot, arg))

\* ----------------------------------------------------------- object.rs
\* Object::new: one vertex buffer, and an index buffer iff index_count > 0
ObjectNew(id, vertex_count, index_count) ==
    [id |-> id,
     vertex_buffers |-> 1,
     index_buffer |-> (index_count > 0),
     vertex_count |-> vertex_count,
     index_count |-> index_count,
     vertices_written |-> FALSE,
     indices_written |-> FALSE]

\* the allocations Object::new makes: <<id, "vertex">> and <<id, "index">>
ObjectAllocations(o) ==
    {<<o.id, "vertex">>} \cup
    (IF o.index_buffer THEN {<<o.id, "index">>} ELSE {})

\* Object::update_vertices_buffer
update_vertices_buffer(o) == [o EXCEPT !.vertices_written = TRUE]

\* the write made whether or not there is an index buffer
update_indices_buffer_WritesAnyway(o) ==
    [o EXCEPT !.indices_written = TRUE]

\* an index buffer made on the first update of an object that has none
update_indices_buffer_Creates(o) ==
    [o EXCEPT !.index_buffer = TRUE, !.indices_written = TRUE]

\* Object::update_indices_buffer: a println when there is no index buffer
update_indices_buffer(o) ==
    IF o.index_buffer THEN [o EXCEPT !.indices_written = TRUE] ELSE o

\* Object::destroy: the allocations it frees
ObjectDestroy(o) ==
    {<<o.id, "vertex">>} \cup
    (IF o.index_buffer THEN {<<o.id, "index">>} ELSE {})

\* ---------------------------------------------------------- swapchain
\* VulkanSwapchain::new: image_count from the surface, slot 0, fences
\* created signaled
SwapchainNew(n) ==
    [image_count |-> n,
     current_image |-> 0,
     may_begin_drawing |-> Filled(n, TRUE)]

\* create_commandbuffers: `amount` buffers in the initial state
create_commandbuffers(amount) ==
    Filled(amount, [recorded |-> FALSE, cmds |-> <<>>])

\* the commands fill_commandbuffers records for the renderables list: per
\* object and vertex buffer, draw_indexed when there is an index buffer and
\* draw otherwise
Commands(objs) ==
    [k \in 1..Len(objs) |->
        [obj |-> objs[k].id,
         cmd |-> IF objs[k].index_buffer THEN "draw_indexed" ELSE "draw"]]

\* fill_commandbuffers, lines 205-282: every command buffer is re-recorded
RecordAll(cbs, objs) ==
    [i \in DOMAIN cbs |-> [recorded |-> TRUE, cmds |-> Commands(objs)]]

\* the fields of VulkanRenderer that its methods read and write, with the
\* image count the surface asks for
Renderer ==
    [surface_image_count |-> surface_image_count,
     image_count |-> image_count,
     current_image |-> current_image,
     may_begin_drawing |-> may_begin_drawing,
     is_framebuffer_resized |-> is_framebuffer_resized,
     command_buffers |-> command_buffers,
     game_objects |-> game_objects]

\* the command buffers allocated for the image count of the old swapchain
Rebuild_OldCount(r) ==
    [r EXCEPT
       !.image_count = SwapchainNew(r.surface_image_count).image_count,
       !.current_image = SwapchainNew(r.surface_image_count).current_image,
       !.may_begin_drawing =
           SwapchainNew(r.surface_image_count).may_begin_drawing,
       !.command_buffers = create_commandbuffers(r.image_count)]

\* the slot of the old swapchain carried over and advanced
Rebuild_AdvancesSlot(r) ==
    [r EXCEPT
       !.image_count = SwapchainNew(r.surface_image_count).image_count,
       !.current_image =
           (r.current_image + 1) %
               SwapchainNew(r.surface_image_count).image_count,
       !.may_begin_drawing =
           SwapchainNew(r.surface_image_count).may_begin_drawing,
       !.command_buffers =
           create_commandbuffers(
               SwapchainNew(r.surface_image_count).image_count)]

\* recreate_swapchain, lines 157-181: free and destroy, then a new swapchain
\* and new command buffers, one per image
Rebuild(r) ==
    [r EXCEPT
       !.image_count = SwapchainNew(r.surface_image_count).image_count,
       !.current_image = SwapchainNew(r.surface_image_count).current_image,
       !.may_begin_drawing =
           SwapchainNew(r.surface_image_count).may_begin_drawing,
       !.command_buffers =
           create_commandbuffers(
               SwapchainNew(r.surface_image_count).image_count)]

\* only the command buffer of the current slot is re-recorded
Fill_CurrentOnly(r) ==
    [r EXCEPT !.command_buffers =
        [i \in DOMAIN r.command_buffers |->
            IF i = r.current_image
            THEN [recorded |-> TRUE, cmds |-> Commands(r.game_objects)]
            ELSE r.command_buffers[i]]]

\* fill_commandbuffers, lines 205-283, on the fields of the renderer
Fill(r) ==
    [r EXCEPT !.command_buffers = RecordAll(r.command_buffers, r.game_objects)]

\* recreate_swapchain, lines 150-185, once the device is idle
recreate_swapchain(r) == Fill(Rebuild(r))

\* ------------------------------------------------------------------ Init
Init ==
    /\ pc = "setup"
    /\ surface_image_count \in ImageCounts
    /\ image_count = SwapchainNew(surface_image_count).image_count
    /\ current_image = SwapchainNew(surface_image_count).current_image
    /\ may_begin_drawing = SwapchainNew(surface_image_count).may_begin_drawing
    /\ is_framebuffer_resized = FALSE
    /\ command_buffers = create_commandbuffers(image_count)
    /\ game_objects = <<>>
    /\ allocations = {}
    /\ image_index = 0
    /\ inflight = <<>>
    /\ events = <<>>
    /\ teardown = <<>>
    /\ redraws = 0
    /\ frames_ok = 0
    /\ frames_since_create = 0
    /\ resize_count = 0
    /\ rs_frames = 0
    /\ rs_recreates = 0
    /\ rs_other = FALSE
    /\ stale = TRUE

\* ------------------------------------------------------------- main.rs
\* main, lines 20-22: create a renderable and push it
AddRenderable ==
    /\ pc = "setup"
    /\ Len(game_objects) < MainRenderables
    /\ \E vc \in VertexCounts, ic \in IndexCounts :
         LET o == ObjectNew(Len(game_objects) + 1, vc, ic) IN
           /\ game_objects' = Append(game_objects, o)
           /\ allocations' = allocations \cup ObjectAllocations(o)
    /\ stale' = TRUE
    /\ UNCHANGED <<pc, surface_image_count, swapchain_vars,
                   is_framebuffer_resized, command_buffers, image_index,
                   inflight, events, teardown, counter_vars>>

\* main, line 25: the event loop starts
RunEventLoop ==
    /\ pc = "setup"
    /\ Len(game_objects) = MainRenderables
    /\ pc' = "idle"
    /\ UNCHANGED <<surface_image_count, swapchain_vars,
                   is_framebuffer_resized, command_buffers, game_objects,
                   allocations, image_index, inflight, events, teardown,
                   history_vars>>

\* the window system reports a resize: the host sets the public flag
FramebufferResized ==
    /\ pc = "idle"
    /\ resize_count < MaxResizes
    /\ is_framebuffer_resized' = TRUE
    /\ resize_count' = resize_count + 1
    /\ rs_frames' = 0
    /\ rs_recreates' = 0
    /\ rs_other' = FALSE
    /\ UNCHANGED <<pc, surface_image_count, swapchain_vars, command_buffers,
                   game_objects, allocations, image_index, inflight, events,
                   teardown, redraws, frames_ok, frames_since_create,
                   stale>>

\* the surface capabilities change: the next swapchain gets another count.
\* The count is read by VulkanSwapchain::new alone, so one change per
\* swapchain stands for any number of them.
SurfaceChanged ==
    /\ pc = "idle"
    /\ surface_image_count = image_count
    /\ \E n \in ImageCounts \ {surface_image_count} :
         surface_image_count' = n
    /\ UNCHANGED <<pc, swapchain_vars, is_framebuffer_resized,
                   command_buffers, game_objects, allocations, image_index,
                   inflight, events, teardown, history_vars>>

\* main, line 35: a RedrawRequested event enters the handler
RedrawRequested ==
    /\ pc = "idle"
    /\ redraws < MaxRedraws
    /\ redraws' = redraws + 1
    /\ pc' = "update_vertices"
    /\ UNCHANGED <<surface_image_count, swapchain_vars,
                   is_framebuffer_resized, command_buffers, game_objects,
                   allocations, image_index, inflight, events, teardown,
                   frames_ok, frames_since_create, resize_count, resize_vars,
                   stale>>

\* the pending batches whose commands read the vertex buffer of object id
VertexReaders(id) ==
    {j \in 1..Len(inflight) :
        \E k \in 1..Len(inflight[j].cmds) : inflight[j].cmds[k].obj = id}

\* the pending batches whose commands read the index buffer of object id
IndexReaders(id) ==
    {j \in 1..Len(inflight) :
        \E k \in 1..Len(inflight[j].cmds) :
            /\ inflight[j].cmds[k].obj = id
            /\ inflight[j].cmds[k].cmd = "draw_indexed"}

\* main, line 66: renderables[0].update_vertices_buffer(&vertices); arg is
\* the number of pending batches that read the buffer written
UpdateVertices ==
    /\ pc = "update_vertices"
    /\ game_objects' =
         [game_objects EXCEPT ![1] = update_vertices_buffer(game_objects[1])]
    /\ events' = Log("update_vertices", current_image,
                     Cardinality(VertexReaders(game_objects[1].id)))
    /\ pc' = "update_indices"
    /\ UNCHANGED <<surface_image_count, swapchain_vars,
                   is_framebuffer_resized, command_buffers, allocations,
                   image_index, inflight, teardown, history_vars>>

\* main, line 67: renderables[0].update_indices_buffer(&indices)
UpdateIndices ==
    /\ pc = "update_indices"
    /\ game_objects' =
         [game_objects EXCEPT ![1] = update_indices_buffer(game_objects[1])]
    /\ events' = Log("update_indices", current_image,
                     Cardinality(IndexReaders(game_objects[1].id)))
    /\ pc' = "fill_wait"
    /\ UNCHANGED <<surface_image_count, swapchain_vars,
                   is_framebuffer_resized, command_buffers, allocations,
                   image_index, inflight, teardown, history_vars>>

\* ----------------------------------------------------------- renderer.rs
\* fill_commandbuffers is called by main (line 69) and by
\* recreate_swapchain (line 183); where it returns to
FillWaitPcs == {"fill_wait", "rc_fill_wait", "api_fill_wait"}
FillRecordPcs == {"fill_record", "rc_fill_record", "api_fill_record"}
AfterFillWait ==
    CASE pc = "fill_wait" -> "fill_record"
      [] pc = "rc_fill_wait" -> "rc_fill_record"
      [] OTHER -> "api_fill_record"
AfterFillRecord ==
    CASE pc = "fill_record" -> "df_advance"
      [] pc = "rc_fill_record" -> "rc_done"
      [] OTHER -> "returned"

\* fill_commandbuffers waits on the fence of the slot the next frame will use
FillWait_NextSlot ==
    /\ pc \in FillWaitPcs
    /\ may_begin_drawing[(current_image + 1) % image_count]
    /\ events' = Log("fill_wait", current_image, 0)
    /\ pc' = AfterFillWait
    /\ UNCHANGED <<surface_image_count, swapchain_vars,
                   is_framebuffer_resized, command_buffers, game_objects,
                   allocations, image_index, inflight, teardown,
                   history_vars>>

\* fill_commandbuffers records without waiting on the fence
FillWait_NoWait ==
    /\ pc \in FillWaitPcs
    /\ events' = Log("fill_wait", current_image, 0)
    /\ pc' = AfterFillWait
    /\ UNCHANGED <<surface_image_count, swapchain_vars,
                   is_framebuffer_resized, command_buffers, game_objects,
                   allocations, image_index, inflight, teardown,
                   history_vars>>

\* fill_commandbuffers, lines 199-203: wait on the fence of the current slot;
\* expect panics on an Err
FillWait ==
    /\ pc \in FillWaitPcs
    /\ \E res \in CallResults :
         IF res = "ok"
         THEN /\ may_begin_drawing[current_image]
              /\ events' = Log("fill_wait", current_image, 0)
              /\ pc' = AfterFillWait
         ELSE /\ events' = Log("fill_wait_failed", current_image, 0)
              /\ pc' = "panicked"
    /\ UNCHANGED <<surface_image_count, swapchain_vars,
                   is_framebuffer_resized, command_buffers, game_objects,
                   allocations, image_index, inflight, teardown,
                   history_vars>>

\* fill_commandbuffers, lines 205-283: record every command buffer
FillRecord ==
    /\ pc \in FillRecordPcs
    /\ command_buffers' = Fill(Renderer).command_buffers
    /\ events' = Log("record", current_image, 0)
    /\ stale' = FALSE
    /\ pc' = AfterFillRecord
    /\ UNCHANGED <<surface_image_count, swapchain_vars,
                   is_framebuffer_resized, game_objects, allocations,
                   image_index, inflight, teardown, counter_vars>>

\* the slot advanced modulo one less than the image count
DfAdvance_OffByOne ==
    /\ pc = "df_advance"
    /\ current_image' = (current_image + 1) % (image_count - 1)
    /\ pc' = "df_acquire"
    /\ UNCHANGED <<surface_image_count, image_count, may_begin_drawing,
                   is_framebuffer_resized, command_buffers, game_objects,
                   allocations, image_index, inflight, events, teardown,
                   history_vars>>

\* draw_frame, line 287: advance the slot
DfAdvance ==
    /\ pc = "df_advance"
    /\ current_image' = (current_image + 1) % image_count
    /\ pc' = "df_acquire"
    /\ UNCHANGED <<surface_image_count, image_count, may_begin_drawing,
                   is_framebuffer_resized, command_buffers, game_objects,
                   allocations, image_index, inflight, events, teardown,
                   history_vars>>

\* the flag was set once and nothing else has invalidated the swapchain since
Tracking == resize_count = 1 /\ ~rs_other

\* an invalidation other than the OUT_OF_DATE of the first acquire after the
\* resize flag was set
OtherInvalidation(res, first_acquire) ==
    /\ Tracking
    /\ \/ res = "suboptimal"
       \/ res = "out_of_date" /\ ~(first_acquire /\ rs_frames = 0)

\* OUT_OF_DATE from the acquire handled like a success: the frame goes on
DfAcquire_NoSkip ==
    /\ pc = "df_acquire"
    /\ \E res \in AcquireResults, idx \in Slots(image_count) :
         /\ events' = Log("acquire", current_image, res)
         /\ rs_other' = (rs_other \/ OtherInvalidation(res, TRUE))
         /\ IF res = "error"
            THEN /\ image_index' = image_index
                 /\ pc' = "panicked"
            ELSE /\ image_index' = idx
                 /\ pc' = "df_wait"
    /\ UNCHANGED <<surface_image_count, swapchain_vars,
                   is_framebuffer_resized, command_buffers, game_objects,
                   allocations, inflight, teardown, redraws, frames_ok,
                   frames_since_create, resize_count, rs_frames,
                   rs_recreates, stale>>

\* draw_frame, lines 289-303: acquire_next_image and the match on its result;
\* the presentation engine hands out any image
DfAcquire ==
    /\ pc = "df_acquire"
    /\ \E res \in AcquireResults, idx \in Slots(image_count) :
         /\ events' = Log("acquire", current_image, res)
         /\ rs_other' = (rs_other \/ OtherInvalidation(res, TRUE))
         /\ CASE res \in {"ok", "suboptimal"} ->
                   /\ image_index' = idx
                   /\ pc' = "df_wait"
              [] res = "out_of_date" ->
                   /\ image_index' = image_index
                   /\ pc' = "rc_wait_idle"
              [] OTHER ->
                   /\ image_index' = image_index
                   /\ pc' = "panicked"
    /\ UNCHANGED <<surface_image_count, swapchain_vars,
                   is_framebuffer_resized, command_buffers, game_objects,
                   allocations, inflight, teardown, redraws, frames_ok,
                   frames_since_create, resize_count, rs_frames,
                   rs_recreates, stale>>

\* draw_frame, lines 305-308: wait on the fence of the slot
DfWaitFence ==
    /\ pc = "df_wait"
    /\ \E res \in CallResults :
         IF res = "ok"
         THEN /\ may_begin_drawing[current_image]
              /\ events' = Log("wait", current_image, 0)
              /\ pc' = "df_reset"
         ELSE /\ events' = Log("wait_failed", current_image, 0)
              /\ pc' = "panicked"
    /\ UNCHANGED <<surface_image_count, swapchain_vars,
                   is_framebuffer_resized, command_buffers, game_objects,
                   allocations, image_index, inflight, teardown,
                   history_vars>>

\* the fence is not reset before the submit
DfResetFence_Missing ==
    /\ pc = "df_reset"
    /\ pc' = "df_submit"
    /\ UNCHANGED <<surface_image_count, swapchain_vars,
                   is_framebuffer_resized, command_buffers, game_objects,
                   allocations, image_index, inflight, events, teardown,
                   history_vars>>

\* draw_frame, lines 323-324: reset the fence of the slot
DfResetFence ==
    /\ pc = "df_reset"
    /\ \E res \in CallResults :
         IF res = "ok"
         THEN /\ may_begin_drawing' =
                   [may_begin_drawing EXCEPT ![current_image] = FALSE]
              /\ events' = Log("reset", current_image, 0)
              /\ pc' = "df_submit"
         ELSE /\ may_begin_drawing' = may_begin_drawing
              /\ events' = Log("reset_failed", current_image, 0)
              /\ pc' = "panicked"
    /\ UNCHANGED <<surface_image_count, image_count, current_image,
                   is_framebuffer_resized, command_buffers, game_objects,
                   allocations, image_index, inflight, teardown,
                   history_vars>>

\* the command buffer chosen by the slot, not by the acquired image
DfSubmit_SlotBuffer ==
    /\ pc = "df_submit"
    /\ inflight' = Append(inflight,
                          [cb |-> current_image,
                           fence |-> current_image,
                           cmds |-> command_buffers[current_image].cmds])
    /\ events' = Log("submit", current_image, current_image)
    /\ pc' = "df_present"
    /\ UNCHANGED <<surface_image_count, swapchain_vars,
                   is_framebuffer_resized, command_buffers, game_objects,
                   allocations, image_index, teardown, history_vars>>

\* a failed submit drops the frame and draw_frame returns
DfSubmit_ErrorReturns ==
    /\ pc = "df_submit"
    /\ \E res \in CallResults :
         IF res = "ok"
         THEN /\ inflight' =
                   Append(inflight,
                          [cb |-> image_index,
                           fence |-> current_image,
                           cmds |-> command_buffers[image_index].cmds])
              /\ events' = Log("submit", current_image, image_index)
              /\ pc' = "df_present"
         ELSE /\ inflight' = inflight
              /\ events' = Log("submit_failed", current_image, image_index)
              /\ pc' = "returned"
    /\ UNCHANGED <<surface_image_count, swapchain_vars,
                   is_framebuffer_resized, command_buffers, game_objects,
                   allocations, image_index, teardown, history_vars>>

\* draw_frame, lines 310-320 and 326-327: submit command_buffers[image_index]
\* with the fence of the slot
DfSubmit ==
    /\ pc = "df_submit"
    /\ \E res \in CallResults :
         IF res = "ok"
         THEN /\ inflight' =
                   Append(inflight,
                          [cb |-> image_index,
                           fence |-> current_image,
                           cmds |-> command_buffers[image_index].cmds])
              /\ events' = Log("submit", current_image, image_index)
              /\ pc' = "df_present"
         ELSE /\ inflight' = inflight
              /\ events' = Log("submit_failed", current_image, image_index)
              /\ pc' = "panicked"
    /\ UNCHANGED <<surface_image_count, swapchain_vars,
                   is_framebuffer_resized, command_buffers, game_objects,
                   allocations, image_index, teardown, history_vars>>

\* draw_frame, lines 339-345: Ok(_) covers success and suboptimal (a success
\* code of the binding); the Err arm sees OUT_OF_DATE; anything else panics
IsResized(res) ==
    IF res \in {"ok", "suboptimal"} THEN is_framebuffer_resized ELSE TRUE

\* 1 for a present that queued the image (success or suboptimal), else 0
Presented(res) == IF res \in {"ok", "suboptimal"} THEN 1 ELSE 0

\* every Err of the present taken as an invalidation: no panic
IsFatal_Never(res) == FALSE

\* draw_frame, line 343: a present result that is neither a success nor
\* OUT_OF_DATE panics
IsFatal(res) == res = "error"

\* draw_frame, lines 330-351: queue_present, then recreate when is_resized;
\* image_index is last used by the present and goes out of scope
DfPresent ==
    /\ pc = "df_present"
    /\ \E res \in PresentResults :
         /\ events' = Log("present", current_image, res)
         /\ rs_other' = (rs_other \/ OtherInvalidation(res, FALSE))
         /\ IF IsFatal(res)
            THEN /\ pc' = "panicked"
                 /\ UNCHANGED <<is_framebuffer_resized, frames_ok,
                                frames_since_create, rs_frames>>
            ELSE /\ frames_ok' = frames_ok + Presented(res)
                 /\ frames_since_create' =
                      frames_since_create + Presented(res)
                 /\ IF IsResized(res)
                    THEN /\ is_framebuffer_resized' = FALSE
                         /\ pc' = "rc_wait_idle"
                         /\ rs_frames' = rs_frames
                    ELSE /\ is_framebuffer_resized' = is_framebuffer_resized
                         /\ pc' = "returned"
                         /\ rs_frames' = IF Tracking
                                         THEN rs_frames + 1 ELSE rs_frames
    /\ image_index' = 0
    /\ UNCHANGED <<surface_image_count, swapchain_vars, command_buffers,
                   game_objects, allocations, inflight, teardown, redraws,
                   resize_count, rs_recreates, stale>>

\* recreate_swapchain, lines 151-155: device_wait_idle
RcWaitIdle ==
    /\ pc = "rc_wait_idle"
    /\ inflight = <<>>
    /\ events' = Log("device_wait_idle", current_image, 0)
    /\ pc' = "rc_rebuild"
    /\ UNCHANGED <<surface_image_count, swapchain_vars,
                   is_framebuffer_resized, command_buffers, game_objects,
                   allocations, image_index, inflight, teardown,
                   history_vars>>

\* the pipeline built before the renderpass it is built from
RecreateSteps_PipelineFirst ==
    <<[op |-> "free", what |-> "command_buffers"],
      [op |-> "destroy", what |-> "pools"],
      [op |-> "destroy", what |-> "pipeline"],
      [op |-> "destroy", what |-> "renderpass"],
      [op |-> "destroy", what |-> "swapchain"],
      [op |-> "create", what |-> "swapchain"],
      [op |-> "create", what |-> "pipeline"],
      [op |-> "create", what |-> "renderpass"],
      [op |-> "create", what |-> "framebuffers"],
      [op |-> "create", what |-> "pools"],
      [op |-> "create", what |-> "command_buffers"]>>

\* recreate_swapchain, lines 157-181: its calls between device_wait_idle
\* and fill_commandbuffers
RecreateSteps ==
    <<[op |-> "free", what |-> "command_buffers"],
      [op |-> "destroy", what |-> "pools"],
      [op |-> "destroy", what |-> "pipeline"],
      [op |-> "destroy", what |-> "renderpass"],
      [op |-> "destroy", what |-> "swapchain"],
      [op |-> "create", what |-> "swapchain"],
      [op |-> "create", what |-> "renderpass"],
      [op |-> "create", what |-> "framebuffers"],
      [op |-> "create", what |-> "pipeline"],
      [op |-> "create", what |-> "pools"],
      [op |-> "create", what |-> "command_buffers"]>>

\* the arguments of the calls of recreate_swapchain and of
\* fill_commandbuffers (lines 165-183): what each object is made from
MadeFrom(what) ==
    CASE what = "renderpass" -> {"swapchain"}
      [] what = "framebuffers" -> {"swapchain", "renderpass"}
      [] what = "pipeline" -> {"swapchain", "renderpass"}
      [] what = "command_buffers" -> {"pools", "swapchain"}
      [] what = "record" ->
           {"command_buffers", "renderpass", "swapchain", "pipeline"}
      [] OTHER -> {}

\* recreate_swapchain, lines 157-181
RcRebuild ==
    /\ pc = "rc_rebuild"
    /\ image_count' = Rebuild(Renderer).image_count
    /\ current_image' = Rebuild(Renderer).current_image
    /\ may_begin_drawing' = Rebuild(Renderer).may_begin_drawing
    /\ command_buffers' = Rebuild(Renderer).command_buffers
    /\ frames_since_create' = 0
    /\ rs_recreates' = IF Tracking
                       THEN rs_recreates + 1 ELSE rs_recreates
    /\ events' = Log("recreate", current_image, 0) \o
                 [k \in 1..Len(RecreateSteps) |->
                     Ev(RecreateSteps[k].op, current_image,
                        RecreateSteps[k].what)]
    /\ stale' = TRUE
    /\ pc' = "rc_fill_wait"
    /\ UNCHANGED <<surface_image_count, is_framebuffer_resized, game_objects,
                   allocations, image_index, inflight, teardown, redraws,
                   frames_ok, resize_count, rs_frames, rs_other>>

\* recreate_swapchain, line 185, and the return of draw_frame (line 298 or
\* line 351)
RcReturn ==
    /\ pc = "rc_done"
    /\ rs_frames' = IF Tracking THEN rs_frames + 1 ELSE rs_frames
    /\ pc' = "returned"
    /\ UNCHANGED <<surface_image_count, swapchain_vars,
                   is_framebuffer_resized, command_buffers, game_objects,
                   allocations, image_index, inflight, events, teardown,
                   redraws, frames_ok, frames_since_create, resize_count,
                   rs_recreates, rs_other, stale>>

\* main, line 73: draw_frame has returned and the handler ends
HandlerReturn ==
    /\ pc = "returned"
    /\ events' = <<>>
    /\ pc' = "idle"
    /\ UNCHANGED <<surface_image_count, swapchain_vars,
                   is_framebuffer_resized, command_buffers, game_objects,
                   allocations, image_index, inflight, teardown,
                   history_vars>>

\* the GPU completes the oldest pending batch and signals its fence (fence
\* signals of one queue happen in submission order)
GpuComplete ==
    /\ inflight # <<>>
    /\ may_begin_drawing' =
         [may_begin_drawing EXCEPT ![Head(inflight).fence] = TRUE]
    /\ inflight' = Tail(inflight)
    /\ UNCHANGED <<pc, surface_image_count, image_count, current_image,
                   is_framebuffer_resized, command_buffers, game_objects,
                   allocations, image_index, events, teardown, history_vars>>

\* ------------------------------------------------------------------ Drop
\* the device destroyed before the swapchain and the allocator
DropOrder_DeviceFirst ==
    <<"free_command_buffers", "pools", "pipeline", "renderpass", "device",
      "swapchain", "allocator", "surface", "debug", "instance">>

\* Drop for VulkanRenderer, lines 363-373: the calls after the renderables
DropOrder ==
    <<"free_command_buffers", "pools", "pipeline", "renderpass", "swapchain",
      "allocator", "device", "surface", "debug", "instance">>

\* main, lines 27-29: CloseRequested ends the loop and the renderer is
\* dropped; drop starts with device_wait_idle (line 357).  The first entry
\* of teardown tells whether a batch was pending when drop was entered.
CloseRequested ==
    /\ pc = "idle"
    /\ pc' = "drop"
    /\ teardown' = <<IF inflight = <<>> THEN "drop" ELSE "drop_pending">>
    /\ UNCHANGED <<surface_image_count, swapchain_vars,
                   is_framebuffer_resized, command_buffers, game_objects,
                   allocations, image_index, inflight, events,
                   history_vars>>

\* a panic (lines 202, 300, 307, 324, 327 and 343) unwinds out of the
\* handler, whose calls end here, and the renderer is dropped
PanicUnwind ==
    /\ pc = "panicked"
    /\ pc' = "drop"
    /\ teardown' = <<IF inflight = <<>> THEN "drop" ELSE "drop_pending">>
    /\ events' = <<>>
    /\ image_index' = 0
    /\ UNCHANGED <<surface_image_count, swapchain_vars,
                   is_framebuffer_resized, command_buffers, game_objects,
                   allocations, inflight, history_vars>>

\* drop does not wait for the device
DropWaitIdle_Missing == TRUE

\* drop, line 357: device_wait_idle returns when nothing is pending
DropWaitIdle == inflight = <<>>

\* drop, lines 356-374: device_wait_idle, the buffers of every renderable,
\* then one call of DropOrder after the other
Drop ==
    /\ pc = "drop"
    /\ DropWaitIdle
    /\ allocations' = allocations \
         UNION {ObjectDestroy(game_objects[k]) : k \in DOMAIN game_objects}
    /\ teardown' =
         teardown \o <<"device_wait_idle", "game_objects">> \o DropOrder
    /\ pc' = "dropped"
    /\ UNCHANGED <<surface_image_count, swapchain_vars,
                   is_framebuffer_resized, command_buffers, game_objects,
                   image_index, inflight, events, history_vars>>

Next ==
    \/ AddRenderable
    \/ RunEventLoop
    \/ FramebufferResized
    \/ SurfaceChanged
    \/ RedrawRequested
    \/ UpdateVertices
    \/ UpdateIndices
    \/ FillWait
    \/ FillRecord
    \/ DfAdvance
    \/ DfAcquire
    \/ DfWaitFence
    \/ DfResetFence
    \/ DfSubmit
    \/ DfPresent
    \/ RcWaitIdle
    \/ RcRebuild
    \/ RcReturn
    \/ HandlerReturn
    \/ GpuComplete
    \/ CloseRequested
    \/ PanicUnwind
    \/ Drop

Spec == Init /\ [][Next]_vars

\* The GPU completes every batch it was given, and a wait_for_fences on a
\* signaled fence returns.
SpecFair ==
    /\ Spec
    /\ WF_vars(GpuComplete)
    /\ WF_vars(FillWait /\ pc' # "panicked")
    /\ WF_vars(DfWaitFence /\ pc' # "panicked")

\* ------------------------------------------------------- the public API
\* The pub methods of VulkanRenderer and its pub field game_objects, called
\* in any order by a host other than main; MaxRedraws bounds the calls.
\* VulkanRenderer::new has returned (lines 81-100)
ApiNew ==
    /\ pc = "setup"
    /\ game_objects = <<>>
    /\ pc' = "api"
    /\ UNCHANGED <<surface_image_count, swapchain_vars,
                   is_framebuffer_resized, command_buffers, game_objects,
                   allocations, image_index, inflight, events, teardown,
                   history_vars>>

\* game_objects.push(...) on the pub field (renderer.rs line 36)
ApiAddRenderable ==
    /\ pc = "api"
    /\ Len(game_objects) < MaxObjects
    /\ \E vc \in VertexCounts, ic \in IndexCounts :
         LET o == ObjectNew(Len(game_objects) + 1, vc, ic) IN
           /\ game_objects' = Append(game_objects, o)
           /\ allocations' = allocations \cup ObjectAllocations(o)
    /\ stale' = TRUE
    /\ UNCHANGED <<pc, surface_image_count, swapchain_vars,
                   is_framebuffer_resized, command_buffers, image_index,
                   inflight, events, teardown, counter_vars>>

\* a call of fill_commandbuffers (line 197), draw_frame (line 286) or
\* recreate_swapchain (line 150)
ApiCall ==
    /\ pc = "api"
    /\ redraws < MaxRedraws
    /\ redraws' = redraws + 1
    /\ pc' \in {"api_fill_wait", "df_advance", "rc_wait_idle"}
    /\ UNCHANGED <<surface_image_count, swapchain_vars,
                   is_framebuffer_resized, command_buffers, game_objects,
                   allocations, image_index, inflight, events, teardown,
                   frames_ok, frames_since_create, resize_count, resize_vars,
                   stale>>

\* a call of update_vertices_buffer (object.rs line 32) or
\* update_indices_buffer (line 36) on one of the renderables; arg is the
\* renderable
ApiUpdate ==
    /\ pc = "api"
    /\ redraws < MaxRedraws
    /\ redraws' = redraws + 1
    /\ \E k \in DOMAIN game_objects :
         \/ /\ game_objects' =
                 [game_objects EXCEPT ![k] = update_vertices_buffer(@)]
            /\ events' = Log("update_vertices", current_image, k)
         \/ /\ game_objects' =
                 [game_objects EXCEPT ![k] = update_indices_buffer(@)]
            /\ events' = Log("update_indices", current_image, k)
    /\ pc' = "returned"
    /\ UNCHANGED <<surface_image_count, swapchain_vars,
                   is_framebuffer_resized, command_buffers, allocations,
                   image_index, inflight, teardown, frames_ok,
                   frames_since_create, resize_count, resize_vars, stale>>

\* the call returns to the host
ApiReturn ==
    /\ pc = "returned"
    /\ events' = <<>>
    /\ pc' = "api"
    /\ UNCHANGED <<surface_image_count, swapchain_vars,
                   is_framebuffer_resized, command_buffers, game_objects,
                   allocations, image_index, inflight, teardown,
                   history_vars>>

NextApi ==
    \/ ApiNew
    \/ ApiAddRenderable
    \/ ApiCall
    \/ ApiUpdate
    \/ ApiReturn
    \/ FillWait
    \/ FillRecord
    \/ DfAdvance
    \/ DfAcquire
    \/ DfWaitFence
    \/ DfResetFence
    \/ DfSubmit
    \/ DfPresent
    \/ RcWaitIdle
    \/ RcRebuild
    \/ RcReturn
    \/ GpuComplete

SpecApi == Init /\ [][NextApi]_vars

TypeOK ==
    /\ image_count \in ImageCounts
    /\ current_image \in Slots(image_count)
    /\ DOMAIN may_begin_drawing = Slots(image_count)
    /\ DOMAIN command_buffers = Slots(image_count)

\* ------------------------------------------------------------ properties
\* the positions of the calls `op` in the log of the current handler
Positions(op) == {k \in 1..Len(events) : events[k].op = op}

Count(op) == Cardinality(Positions(op))

Has(op) == Positions(op) # {}

\* no draw_frame call is running
BetweenFrames == pc \in {"idle", "returned"}

\* C1, as stated: between frames, current_image is the number of frames
\* completed since the renderer was created, modulo the image count.
C1_SlotCycling ==
    BetweenFrames => current_image = frames_ok % image_count

\* C1, amended: between frames, current_image is the number of frames
\* completed since the swapchain was last created (by new or by the latest
\* recreate_swapchain), modulo the image count of that swapchain.
C1_SlotCyclingSinceCreate ==
    BetweenFrames => current_image = frames_since_create % image_count

\* a recreation, then as many frames as the new swapchain has images: the
\* slot has wrapped around
C1_Witness ==
    /\ pc = "idle"
    /\ frames_ok > frames_since_create
    /\ frames_since_create = image_count
    /\ current_image = 0

\* C2: a draw_frame call that submits for slot i has reset the fence of slot
\* i exactly once, after its wait on that fence and before the submit; the
\* fence is unsignaled when the submit is made; and no step other than the
\* reset of draw_frame turns a signaled fence unsignaled.
C2_FenceDiscipline ==
    /\ [](\A s \in Positions("submit") :
            /\ Count("reset") = 1
            /\ \E w \in Positions("wait"), r \in Positions("reset") :
                 /\ w < r /\ r < s
                 /\ events[w].slot = events[s].slot
                 /\ events[r].slot = events[s].slot)
    /\ [](pc = "df_submit" => ~may_begin_drawing[current_image])
    /\ [][\A i \in DOMAIN may_begin_drawing \cap DOMAIN may_begin_drawing' :
            (may_begin_drawing[i] /\ ~may_begin_drawing'[i])
                => pc = "df_reset"]_vars

\* a frame was submitted after an earlier frame had used the same swapchain
C2_Witness ==
    /\ pc = "df_present"
    /\ Has("submit")
    /\ frames_since_create >= 1

\* C3: when draw_frame returns after a present that reported OUT_OF_DATE
\* or SUBOPTIMAL, or that was made with the resize flag set,
\* recreate_swapchain has run in that call.
C3_PresentInvalidationRecreates ==
    pc = "returned" =>
        \A p \in Positions("present") :
            (events[p].arg \in {"out_of_date", "suboptimal"} \/ events[p].flag)
                => Has("recreate")

\* C4: the resize flag was set once and nothing else invalidated the
\* swapchain (but, possibly, the OUT_OF_DATE of the next acquire): once a
\* frame has returned, recreate_swapchain has run exactly once since.
C4_ResizeRecreatesOnce ==
    (pc = "idle" /\ Tracking /\ rs_frames >= 1) => rs_recreates = 1

\* C5: right after recreate_swapchain has completed, the resize flag is
\* clear.
C5_RecreateClearsFlag ==
    pc = "rc_done" => ~is_framebuffer_resized

\* the calls that a skipped frame must not make after its acquire
FrameCalls == {"wait", "reset", "submit", "present"}

\* C6, as stated: after an acquire that returned OUT_OF_DATE, draw_frame
\* runs recreate_swapchain once and waits on no fence, resets none, submits
\* and presents nothing; after a suboptimal acquire the frame is submitted
\* and presented.
C6_SkippedFrame ==
    pc = "returned" =>
        \A a \in Positions("acquire") :
            /\ events[a].arg = "out_of_date" =>
                 /\ Count("recreate") = 1
                 /\ \A k \in (a + 1)..Len(events) :
                      events[k].op \notin FrameCalls \cup {"fill_wait"}
            /\ events[a].arg = "suboptimal" =>
                 Has("submit") /\ Has("present")

\* C6, amended: as stated, but for one fence wait: the one that
\* fill_commandbuffers makes inside recreate_swapchain, after the rebuild,
\* on a fence of the new swapchain.
C6_SkippedFrameOneFillWait ==
    pc = "returned" =>
        \A a \in Positions("acquire") :
            /\ events[a].arg = "out_of_date" =>
                 /\ Count("recreate") = 1
                 /\ \A k \in (a + 1)..Len(events) :
                      events[k].op \notin FrameCalls
                 /\ \E f \in Positions("fill_wait") :
                      /\ \A r \in Positions("recreate") : r < f
                      /\ \A g \in Positions("fill_wait") : g > a => g = f
            /\ events[a].arg = "suboptimal" =>
                 Has("submit") /\ Has("present")

\* a frame skipped on OUT_OF_DATE has returned
C6_Witness ==
    /\ pc = "returned"
    /\ \E a \in Positions("acquire") : events[a].arg = "out_of_date"

\* C7: no update of a vertex or index buffer is made while a pending batch
\* reads that buffer.
C7_NoWriteWhileGpuReads ==
    \A k \in Positions("update_vertices") \cup Positions("update_indices") :
        events[k].arg = 0

C9_RecreateIdempotent ==
    pc = "rc_done" => recreate_swapchain(Renderer) = Renderer

\* recreate_swapchain has completed after a frame was drawn
C9_Witness ==
    /\ pc = "rc_done"
    /\ frames_ok >= 1
    /\ Len(game_objects) >= 1

\* what Drop has destroyed so far
Destroyed == {teardown[k] : k \in 2..Len(teardown)} \ {"device_wait_idle"}

\* C10: drop calls device_wait_idle first and nothing is pending when
\* anything is destroyed; the buffers of the renderables are destroyed
\* before the allocator is dropped, which then has no live allocation.
C10_Teardown ==
    /\ Destroyed # {} =>
         /\ teardown[2] = "device_wait_idle"
         /\ inflight = <<>>
    /\ "allocator" \in Destroyed =>
         /\ allocations = {}
         /\ \E g, a \in 1..Len(teardown) :
              /\ teardown[g] = "game_objects"
              /\ teardown[a] = "allocator"
              /\ g < a

\* the renderer was dropped with a batch pending and a renderable that has
\* a vertex buffer and an index buffer
C10_Witness ==
    /\ pc = "dropped"
    /\ teardown[1] = "drop_pending"
    /\ \E k \in DOMAIN game_objects : game_objects[k].index_buffer

\* ------------------------------------------------------------------- C11
\* VulkanRenderer::new, lines 43-77, then main, lines 20-22: the resources in
\* the order of their creation
CreationOrder ==
    <<"instance", "debug", "surface", "device", "swapchain", "renderpass",
      "framebuffers", "pipeline", "pools", "allocator", "command_buffers",
      "game_objects">>

\* VulkanSwapchain::cleanup: the framebuffers, then the swapchain
SwapchainCleanup == <<"framebuffers", "swapchain">>

\* the resources that one call of drop destroys
DestroyedBy(call) ==
    CASE call = "free_command_buffers" -> <<"command_buffers">>
      [] call = "swapchain" -> SwapchainCleanup
      [] OTHER -> <<call>>

RECURSIVE Flatten(_)
Flatten(calls) ==
    IF calls = <<>> THEN <<>>
    ELSE DestroyedBy(Head(calls)) \o Flatten(Tail(calls))

\* the resources in the order drop has destroyed them (teardown starts with
\* the entry of drop and device_wait_idle)
DestructionOrder == Flatten(SubSeq(teardown, 3, Len(teardown)))

Reverse(s) == [k \in 1..Len(s) |-> s[Len(s) + 1 - k]]

Without(s, left_out) ==
    LET Keep(x) == x \notin left_out IN SelectSeq(s, Keep)

IndexOf(s, x) == CHOOSE k \in 1..Len(s) : s[k] = x

FailedCalls ==
    {"fill_wait_failed", "wait_failed", "reset_failed", "submit_failed"}

\* entry k of the log is a fatal error: a failed fence wait, fence reset or
\* submit, or an acquire or present error that is not an invalidation
Fatal(k) ==
    \/ events[k].op \in FailedCalls
    \/ events[k].op \in {"acquire", "present"} /\ events[k].arg = "error"

\* C13: a fatal error is the last call the handler makes (no submit, no
\* present, no recreate_swapchain follows it): the renderer has panicked at
\* it, and the one step a panicked renderer takes is the unwinding into
\* drop.
C13_FatalErrors ==
    /\ [](\A k \in 1..Len(events) :
            Fatal(k) => k = Len(events) /\ pc = "panicked")
    /\ [](pc = "panicked" => events # <<>> /\ Fatal(Len(events)))
    /\ [][pc = "panicked" => pc' = "drop"]_
         <<pc, events, image_count, current_image, command_buffers,
           game_objects, is_framebuffer_resized>>

\* the submit of a frame failed after an earlier frame had been presented
C13_Witness ==
    /\ pc = "panicked"
    /\ events # <<>>
    /\ events[Len(events)].op = "submit_failed"
    /\ Has("reset")
    /\ frames_ok >= 1

\* ------------------------------------------------------------------- C16
\* the calls of the log from position k on, as <<call, argument>>
CallsFrom(k) ==
    [j \in 1..(Len(events) + 1 - k) |->
        <<events[k + j - 1].op, events[k + j - 1].arg>>]

\* the start of the recreate_swapchain run that the log ends with
LastRecreate ==
    CHOOSE k \in Positions("device_wait_idle") :
        \A j \in Positions("device_wait_idle") : j <= k

\* the object `what` exists at position k of the log: the last call before
\* k that destroyed or created it, after LastRecreate, created it (before
\* LastRecreate every object exists)
ExistsAt(what, k) ==
    \A d \in LastRecreate..(k - 1) :
        (events[d].op \in {"free", "destroy"} /\ events[d].arg = what)
            => \E c \in (d + 1)..(k - 1) :
                   events[c].op = "create" /\ events[c].arg = what

\* C16: recreate_swapchain makes its calls in this order and no other:
\* device_wait_idle; free the command buffers; destroy pool, pipeline,
\* renderpass, swapchain; create swapchain, renderpass, framebuffers,
\* pipeline, pool, command buffers; re-record every command buffer against
\* the renderables list.  Nothing is pending when the objects are
\* destroyed, and whatever is created or recorded is made from objects
\* that exist.
C16_RecreateOrder ==
    /\ pc = "rc_done" =>
         /\ CallsFrom(LastRecreate) =
              <<<<"device_wait_idle", 0>>, <<"recreate", 0>>,
                <<"free", "command_buffers">>, <<"destroy", "pools">>,
                <<"destroy", "pipeline">>, <<"destroy", "renderpass">>,
                <<"destroy", "swapchain">>, <<"create", "swapchain">>,
                <<"create", "renderpass">>, <<"create", "framebuffers">>,
                <<"create", "pipeline">>, <<"create", "pools">>,
                <<"create", "command_buffers">>, <<"fill_wait", 0>>,
                <<"record", 0>>>>
         /\ \A i \in DOMAIN command_buffers :
              /\ command_buffers[i].recorded
              /\ command_buffers[i].cmds = Commands(game_objects)
    /\ pc = "rc_rebuild" => inflight = <<>>
    /\ Has("recreate") =>
         \A k \in LastRecreate..Len(events) :
             /\ events[k].op = "create" =>
                  \A m \in MadeFrom(events[k].arg) : ExistsAt(m, k)
             /\ events[k].op = "record" =>
                  \A m \in MadeFrom("record") : ExistsAt(m, k)

\* recreate_swapchain has completed after a frame whose present reported
\* an invalidation
C16_Witness ==
    /\ pc = "rc_done"
    /\ Has("submit")
    /\ \E p \in Positions("present") : events[p].arg = "out_of_date"
    /\ Len(game_objects) >= 1

\* ------------------------------------------------------------------- C12
\* C12, as stated: for any sequence of calls of the public operations, the
\* command buffer that draw_frame submits was recorded against the
\* renderables list exactly as it is at the submit.
C12_RecordedAgainstCurrentList ==
    pc = "df_submit" =>
        /\ command_buffers[image_index].recorded
        /\ command_buffers[image_index].cmds = Commands(game_objects)

\* C12, amended: the same, where fill_commandbuffers (called by the host or
\* by recreate_swapchain) has run since the command buffers were created
\* and since the last renderable was added.
C12_RecordedWhenFilledSince ==
    (pc = "df_submit" /\ ~stale) =>
        /\ command_buffers[image_index].recorded
        /\ command_buffers[image_index].cmds = Commands(game_objects)

\* a second frame is about to be submitted, on another command buffer than
\* the slot's, after a renderable was added and fill_commandbuffers ran
C12_Witness ==
    /\ pc = "df_submit"
    /\ ~stale
    /\ frames_ok >= 1
    /\ image_index # current_image
    /\ Len(game_objects) >= 1

\* ------------------------------------------------------------------- C14
\* the pending batches that execute command buffer i
PendingOnBuffer(i) == {j \in 1..Len(inflight) : inflight[j].cb = i}

\* the pending batches submitted for slot i: they signal fence i, wait on
\* image_available[i] and signal rendering_finished[i] (lines 310-320)
PendingOnSlot(i) == {j \in 1..Len(inflight) : inflight[j].fence = i}

\* C14: no command buffer is re-recorded by fill_commandbuffers or
\* re-submitted by draw_frame while a batch that executes it is pending, and
\* the fence and the semaphores of a slot are not used again (acquire,
\* reset, submit) while a batch submitted for that slot is pending.
C14_SlotReuseSafe ==
    /\ pc \in FillRecordPcs =>
         \A i \in DOMAIN command_buffers : PendingOnBuffer(i) = {}
    /\ pc = "df_submit" =>
         /\ PendingOnBuffer(image_index) = {}
         /\ PendingOnSlot(current_image) = {}
    /\ pc \in {"df_acquire", "df_reset"} =>
         PendingOnSlot(current_image) = {}

\* a slot is used for the second time on one swapchain, with a command
\* buffer other than the slot's
C14_Witness ==
    /\ pc = "df_submit"
    /\ frames_since_create >= image_count
    /\ image_index # current_image

\* ------------------------------------------------------------------- C15
\* image_index is live: from the acquire that succeeded to the present
AcquiredPcs == {"df_wait", "df_reset", "df_submit", "df_present"}

\* C15, as stated: in a draw_frame call whose acquire succeeded, the image
\* index that the acquire returned equals current_image.
C15_Lockstep ==
    pc \in AcquiredPcs => image_index = current_image

\* C15, amended: the image index that the acquire returned is an index of
\* command_buffers, whatever current_image is; the wait, the reset and the
\* submit are made for slot current_image, and the submit is made with
\* command buffer image_index.
C15_IndependentIndices ==
    pc \in AcquiredPcs =>
        /\ image_index \in DOMAIN command_buffers
        /\ \A k \in Positions("wait") \cup Positions("reset")
                    \cup Positions("submit") :
              events[k].slot = current_image
        /\ \A s \in Positions("submit") : events[s].arg = image_index

\* the first frame after a recreation was submitted with the command
\* buffer of image 0 for slot 1
C15_Witness ==
    /\ pc = "df_present"
    /\ frames_ok >= 1
    /\ frames_since_create = 0
    /\ image_index = 0
    /\ current_image = 1
    /\ \E s \in Positions("submit") : events[s].arg = 0

\* ------------------------------------------------------------------- C17
\* C17: the number of frames submitted whose fence has not been signaled
\* is at most the image count less one.
C17_InFlightBound ==
    Len(inflight) <= image_count - 1

\* between two frames, as many frames are pending as the bound allows
C17_Witness ==
    /\ pc = "idle"
    /\ frames_ok >= 2
    /\ Len(inflight) = image_count - 1

\* ------------------------------------------------------------------- C18
\* the host is in a wait_for_fences, on the fence of slot current_image
FenceWaitPcs == FillWaitPcs \cup {"df_wait"}

\* C18: with a GPU that completes every batch, every wait_for_fences of
\* fill_commandbuffers and draw_frame returns: the fence waited on is
\* signaled or is the fence of a pending batch (never one that was reset
\* with no submit following).
C18_NoWaitBlocksForever ==
    /\ [](pc \in FenceWaitPcs =>
            \/ may_begin_drawing[current_image]
            \/ PendingOnSlot(current_image) # {})
    /\ (pc \in FenceWaitPcs) ~> (pc \notin FenceWaitPcs)

\* fill_commandbuffers waits on a fence that is not signaled yet
C18_Witness ==
    /\ pc = "fill_wait"
    /\ ~may_begin_drawing[current_image]
    /\ PendingOnSlot(current_image) # {}

\* ------------------------------------------------------------------- C19
\* C19: current_image is below image_count, the fences and the command
\* buffers are image_count many, and the acquired image index is an index of
\* command_buffers: every index that draw_frame and fill_commandbuffers use
\* is in bounds, also after a recreation that changed the image count.
C19_IndicesInBounds ==
    /\ image_count >= 1
    /\ current_image < image_count
    /\ DOMAIN may_begin_drawing = Slots(image_count)
    /\ DOMAIN command_buffers = Slots(image_count)
    /\ pc \in AcquiredPcs => image_index < image_count

\* a recreation has made a swapchain with fewer images than the slot the
\* old swapchain was at
C19_Witness ==
    /\ pc = "rc_fill_wait"
    /\ \E k \in Positions("recreate") : events[k].slot >= image_count

\* ------------------------------------------------------------------- C20
\* C20: every object has exactly one vertex buffer, and an index buffer if
\* and only if it was created with index_count > 0, whatever updates of its
\* vertices and indices have been made.
C20_ObjectShape ==
    \A k \in DOMAIN game_objects :
        /\ game_objects[k].vertex_buffers = 1
        /\ game_objects[k].index_buffer <=> game_objects[k].index_count > 0

\* the indices of an object created with index_count = 0 were updated
\* after its vertices had been
C20_Witness ==
    /\ pc = "returned"
    /\ \E u \in Positions("update_indices") :
         /\ game_objects[events[u].arg].index_count = 0
         /\ game_objects[events[u].arg].vertices_written

\* ------------------------------------------------------------------- C21
\* this step is a call of update_indices_buffer on a renderable that has no
\* index buffer
IndexlessUpdate ==
    /\ pc = "api"
    /\ Len(events') = Len(events) + 1
    /\ events'[Len(events')].op = "update_indices"
    /\ ~game_objects[events'[Len(events')].arg].index_buffer

\* C21: update_indices_buffer on an object created without an index buffer
\* returns normally and changes nothing: not the object (its vertex
\* buffer, its absent index buffer, what was written), not the other
\* objects, and no other state of the renderer.
C21_IndexlessUpdateNoOp ==
    [][IndexlessUpdate =>
         /\ pc' = "returned"
         /\ game_objects' = game_objects
         /\ allocations' = allocations
         /\ command_buffers' = command_buffers
         /\ is_framebuffer_resized' = is_framebuffer_resized
         /\ UNCHANGED <<swapchain_vars, inflight, image_index, stale>>]_vars

\* update_indices_buffer has returned from a call on an object without an
\* index buffer, after the renderer had presented a frame
C21_Witness ==
    /\ pc = "returned"
    /\ frames_ok >= 1
    /\ \E u \in Positions("update_indices") :
         /\ ~game_objects[events[u].arg].index_buffer
         /\ ~game_objects[events[u].arg].indices_written
====
